---- MODULE Spec2Model ----
(***************************************************************************)
(* The real-time conversational gateway of PumpWatch/Backend:              *)
(* websocket/websocket.js (authenticateUser, findOrCreateConversation,     *)
(* handleMessage, setupWebSocket), websocket/assistant.js                  *)
(* (processUserMessage), helpers/fastapiHelper.js (queryFastAPI) and the   *)
(* process lifecycle of index.js (gracefulShutdown).                       *)
(*                                                                         *)
(* Node runs every handler on one thread: a handler runs without           *)
(* interruption up to its next await, and the awaited store or HTTP        *)
(* operation completes later, in any order with respect to the other       *)
(* pending operations.  Each action below is one such uninterrupted        *)
(* segment: the completion of an awaited operation followed by the code    *)
(* up to the next await.                                                   *)
(***************************************************************************)
EXTENDS Integers, Sequences, FiniteSets, TLC

VARIABLES
    ws_state,       \* per socket: "idle" (not yet connected), "open", "closed"
    ws_userId,      \* per socket: ws.userId, 0 while unset / undefined
    ws_handlers,    \* per socket: message/close/error handlers registered
    ws_close,       \* per socket: [by, code] of the close, by = "" while not closed
    request,        \* per socket: the upgrade request not yet handled (NoRequest if none)
    credential,     \* per socket: the token the request supplied (see SelectToken)
    greeting,       \* per socket: what the connection handler sent ("" before)
    conversations,  \* the Conversation collection; _id is the index
    messages,       \* the Message collection in insertion (createdAt) order
    tasks,          \* the handleMessage invocations, in arrival order
    faults,         \* number of store operations that have failed so far
    proc            \* process lifecycle: "running", "shutting", "exit0", "exit1"

vars == <<ws_state, ws_userId, ws_handlers, ws_close, request, credential,
          greeting, conversations, messages, tasks, faults, proc>>

----------------------------------------------------------------------------
(* Bounds of the model *)

\* total number of store operations that fail and of requests to the
\* inference backend that do not end in a 2xx response with a text answer
MaxFaults == 1
\* the longest message log a conversation has when a gateway starts on a
\* store that is in use (SpecHistory)
MaxStored == 52

\* the sockets that may connect and the user identities tokens may carry
Conns == {1, 2}
Users == {1, 2}
\* the handleMessage invocations the model follows: two inbound frames, on
\* one socket or on two, handled one after the other or overlapping
Invocations == {1, 2}
\* the store holds one conversation, of user 1, when the gateway starts
InitialConversations == <<[userId |-> 1, title |-> "Chat with AI Assistant"]>>
\* the conversation ids a frame may name: 1 is in the store from the start,
\* 2 is not (until a Conversation.create assigns it)
ConversationIds == {1, 2}

----------------------------------------------------------------------------
(* Program constants *)

\* ws.close(1008, "Authentication failed")
PolicyViolation == 1008
\* ws.close(1000, "Server shutting down")
NormalClosure == 1000
\* .limit(50) of load_history
HistoryLimit == 50
\* .limit(10) of processUserMessage
ContextLimit == 10

\* the value of `const wss = setupWebSocket(server)`: setupWebSocket creates
\* the Server in a local `wss` and has no return statement
setupWebSocketResult == "undefined"

----------------------------------------------------------------------------
(* Credentials *)

NoToken == [kind |-> "none", id |-> 0]

\* a location carries no token, a string that is no JWT, an expired JWT, a
\* well-signed JWT whose payload has no id, or a well-signed JWT of a user
Tokens ==
    {NoToken, [kind |-> "malformed", id |-> 0], [kind |-> "expired", id |-> 0],
     [kind |-> "noid", id |-> 0]}
    \cup {[kind |-> "valid", id |-> u] : u \in Users}

\* the three places of an upgrade request a token may stand in: the query
\* parameter `token`, the cookie `token`, the Sec-WebSocket-Protocol header
Request(query, cookie, subprotocol) ==
    [query |-> query, cookie |-> cookie, subprotocol |-> subprotocol]

\* no upgrade request is waiting for the connection handler
NoRequest == Request(NoToken, NoToken, [kind |-> "no_request", id |-> 0])

\* the cookie looked at before the query parameter
SelectTokenCookieFirst(query, cookie, subprotocol) ==
    IF cookie # NoToken THEN cookie
    ELSE IF query # NoToken THEN query
    ELSE subprotocol

\* let token; query first, then cookie if (!token), then subprotocol if (!token)
SelectToken(query, cookie, subprotocol) ==
    IF query # NoToken THEN query
    ELSE IF cookie # NoToken THEN cookie
    ELSE subprotocol

\* jwt.verify(token, secret): throws unless the token is well signed and fresh
jwtVerifies(token) == token.kind \in {"valid", "noid"}

\* authenticateUser with jwt.decode in the place of jwt.verify: any token
\* that is supplied is accepted
authenticateUserNoVerify(query, cookie, subprotocol) ==
    LET token == SelectToken(query, cookie, subprotocol) IN
    IF token = NoToken THEN [ok |-> FALSE, id |-> 0]
    ELSE [ok |-> TRUE, id |-> token.id]

\* authenticateUser trying the places one after the other until a token
\* verifies
authenticateUserFirstVerified(query, cookie, subprotocol) ==
    IF query # NoToken /\ jwtVerifies(query) THEN [ok |-> TRUE, id |-> query.id]
    ELSE IF cookie # NoToken /\ jwtVerifies(cookie)
    THEN [ok |-> TRUE, id |-> cookie.id]
    ELSE IF subprotocol # NoToken /\ jwtVerifies(subprotocol)
    THEN [ok |-> TRUE, id |-> subprotocol.id]
    ELSE [ok |-> FALSE, id |-> 0]

\* authenticateUser: [ok, id]; ok = FALSE is the catch branch (sends "error",
\* closes with 1008, rethrows)
authenticateUser(query, cookie, subprotocol) ==
    LET token == SelectToken(query, cookie, subprotocol) IN
    IF token = NoToken THEN [ok |-> FALSE, id |-> 0]
    ELSE IF ~jwtVerifies(token) THEN [ok |-> FALSE, id |-> 0]
    ELSE [ok |-> TRUE, id |-> token.id]

----------------------------------------------------------------------------
(* Sockets *)

NotClosed == [by |-> "", code |-> 0]

\* one ws.send call of a handleMessage invocation: the event type and what
\* it refers to (a Message index, a Conversation id, a list of Message indices)
Event(type, ref) == [type |-> type, ref |-> ref]

\* ws.send(JSON.stringify(...)) by invocation t, added to the events it sent.
\* send is called without a callback: on a socket that is no longer open the
\* frame is dropped and nothing is thrown, so the invocation goes on as on an
\* open one.
wsSend(t, type, ref) == Append(t.out, Event(type, ref))

\* a connection handler that sends "connected" before it authenticates
ConnectionHandlerGreetingFirst(c, query, cookie, subprotocol) ==
    LET auth == authenticateUser(query, cookie, subprotocol) IN
    /\ credential' = [credential EXCEPT ![c] = SelectToken(query, cookie, subprotocol)]
    /\ request' = [request EXCEPT ![c] = NoRequest]
    /\ greeting' = [greeting EXCEPT ![c] = "connected"]
    /\ IF auth.ok
       THEN /\ ws_state' = [ws_state EXCEPT ![c] = "open"]
            /\ ws_userId' = [ws_userId EXCEPT ![c] = auth.id]
            /\ ws_handlers' = [ws_handlers EXCEPT ![c] = TRUE]
            /\ UNCHANGED ws_close
       ELSE /\ ws_state' = [ws_state EXCEPT ![c] = "closed"]
            /\ ws_close' = [ws_close EXCEPT ![c] =
                    [by |-> "server", code |-> PolicyViolation]]
            /\ UNCHANGED <<ws_userId, ws_handlers>>
    /\ UNCHANGED <<conversations, messages, tasks, faults, proc>>

\* wss.on("connection"): authenticate; on success send "connected" and
\* register the handlers; on failure authenticateUser has sent "error" and
\* closed the socket, and the handler returns.
\* The handler reads and writes its own socket only, so it commutes with
\* every step of the other sockets: the sockets connect in the order of their
\* numbers and before the first frame arrives, which reaches the same states.
ConnectionHandler(c, query, cookie, subprotocol) ==
    LET auth == authenticateUser(query, cookie, subprotocol) IN
    /\ credential' = [credential EXCEPT ![c] = SelectToken(query, cookie, subprotocol)]
    /\ request' = [request EXCEPT ![c] = NoRequest]
    /\ IF auth.ok
       THEN /\ ws_state' = [ws_state EXCEPT ![c] = "open"]
            /\ ws_userId' = [ws_userId EXCEPT ![c] = auth.id]
            /\ greeting' = [greeting EXCEPT ![c] = "connected"]
            /\ ws_handlers' = [ws_handlers EXCEPT ![c] = TRUE]
            /\ UNCHANGED ws_close
       ELSE /\ ws_state' = [ws_state EXCEPT ![c] = "closed"]
            /\ ws_close' = [ws_close EXCEPT ![c] =
                    [by |-> "server", code |-> PolicyViolation]]
            /\ greeting' = [greeting EXCEPT ![c] = "error"]
            /\ UNCHANGED <<ws_userId, ws_handlers>>
    /\ UNCHANGED <<conversations, messages, tasks, faults, proc>>

\* a client opens a WebSocket: verifyClient accepts every upgrade request and
\* the "connection" event is due
Upgrade ==
    \E c \in Conns :
        /\ ws_state[c] = "idle"
        /\ request[c] = NoRequest
        /\ \A d \in Conns : d < c => ws_state[d] # "idle"
        /\ tasks = <<>>
        /\ proc = "running"
        /\ \E query \in Tokens, cookie \in Tokens, subprotocol \in Tokens :
                request' = [request EXCEPT ![c] = Request(query, cookie, subprotocol)]
        /\ UNCHANGED <<ws_state, ws_userId, ws_handlers, ws_close, credential,
                       greeting, conversations, messages, tasks, faults, proc>>

Connect ==
    \E c \in Conns :
        /\ ws_state[c] = "idle"
        /\ request[c] # NoRequest
        /\ proc = "running"
        /\ ConnectionHandler(c, request[c].query, request[c].cookie,
                             request[c].subprotocol)

\* the peer closes the socket (socket.close(1000, "Component unmounting"));
\* the gateway's "close" handler only logs
ClientClose ==
    \E c \in Conns :
        /\ ws_state[c] = "open"
        /\ proc \in {"running", "shutting"}
        /\ ws_state' = [ws_state EXCEPT ![c] = "closed"]
        /\ ws_close' = [ws_close EXCEPT ![c] =
                [by |-> "client", code |-> NormalClosure]]
        /\ UNCHANGED <<ws_userId, ws_handlers, request, credential, greeting,
                       conversations, messages, tasks, faults, proc>>

\* a client that reloads only after a connection lost without a close frame
oncloseAbnormalOnly(code) == code = 0

\* socket.onclose of the chat client (chatbot.jsx): TRUE when it schedules
\* the reload, if (event.code !== 1000) setTimeout(reload, 5000).  event.code
\* is the code of the close frame; a connection dropped without one (code 0
\* here) is reported with an abnormal-closure code, which is not 1000.
onclose(code) == code # NormalClosure

\* the client of a socket that has closed has a reload scheduled
reconnectScheduled(c) ==
    /\ ws_close[c] # NotClosed
    /\ onclose(ws_close[c].code)

----------------------------------------------------------------------------
(* The store (mongoose models Conversation and Message) *)

\* Conversation.findOne({_id: conversationId}): the owner is not part of the
\* filter
findOneAnyOwner(userId, conversationId) ==
    IF conversationId \in 1..Len(conversations) THEN conversationId ELSE 0

\* Conversation.findOne({_id: conversationId, userId}): the _id of the match,
\* 0 for null
findOne(userId, conversationId) ==
    IF /\ conversationId \in 1..Len(conversations)
       /\ conversations[conversationId].userId = userId
    THEN conversationId
    ELSE 0

\* the indices of the Messages of a conversation, in createdAt order
\* (Message.find({conversationId}).sort({createdAt: 1}))
findSortedAsc(conversationId) ==
    SelectSeq([i \in 1..Len(messages) |-> i],
              LAMBDA i : messages[i].conversationId = conversationId)

\* .reverse() of an array
Reverse(s) == [i \in 1..Len(s) |-> s[Len(s) + 1 - i]]

\* .limit(n) of a query result
Limit(s, n) == IF Len(s) <= n THEN s ELSE SubSeq(s, 1, n)

\* the context read without the conversation filter: Message.find({})
recentMessagesAnyConversation(conversationId) ==
    Reverse(Limit(Reverse([i \in 1..Len(messages) |-> i]), ContextLimit))

\* Message.find({conversationId}).sort({createdAt: -1}).limit(10), then
\* .reverse() "to get chronological order"
recentMessages(conversationId) ==
    Reverse(Limit(Reverse(findSortedAsc(conversationId)), ContextLimit))

\* the query sorted newest first: .sort({createdAt: -1}).limit(50)
historyNewestFirst(conversationId) ==
    Limit(Reverse(findSortedAsc(conversationId)), HistoryLimit)

\* Message.find({conversationId}).sort({createdAt: 1}).limit(50)
history(conversationId) == Limit(findSortedAsc(conversationId), HistoryLimit)

\* a store operation either completes or rejects (connection lost, timeout,
\* a conversationId that is no ObjectId, a frame without text, which fails
\* the schema's `required`), and a request to the backend either gets a text
\* answer or goes wrong; at most MaxFaults operations go wrong
StoreOutcome(fail) == fail => faults < MaxFaults

CountFault(fail) == faults' = IF fail THEN faults + 1 ELSE faults

----------------------------------------------------------------------------
(* Texts *)

\* a text is [kind, n]: the utterance of frame n, the answer the backend gave
\* to invocation n, or one of the fixed strings of the source (n = 0)
NoText == [kind |-> "missing", n |-> 0]
\* "I'm having trouble processing your request right now. Please try again later."
RelayFallback == [kind |-> "relay_fallback", n |-> 0]
\* "I'm having trouble understanding your question. Could you please rephrase it?"
InvalidFallback == [kind |-> "invalid_fallback", n |-> 0]
\* "I'm experiencing some technical difficulties. Please try again."
TechnicalFallback == [kind |-> "technical_fallback", n |-> 0]
\* "I'm still learning how to respond to that. Can you try rephrasing your question?"
defaultReply == [kind |-> "default_reply", n |-> 0]

FallbackTexts == {RelayFallback, InvalidFallback, TechnicalFallback, defaultReply}

----------------------------------------------------------------------------
(* The Inference Relay *)

\* what the backend does with one request: a 2xx body with a text answer, a
\* 2xx body whose answer is only white space, no response within the timeout,
\* a non-2xx response, a 2xx body with no (or an empty) answer, and a 2xx body
\* whose answer is not a string (a number, an object)
RelayOutcomes == {"answer", "blank", "timeout", "non2xx", "no_answer", "nonstring"}

\* one line of a prompt
Line(speaker, text) == [speaker |-> speaker, text |-> text]

\* recentMessages.map((m) => (m.senderId ? "User: " : "Assistant: ") + m.text)
\* .reverse(), for the Message indices ctx already in chronological order
context(ctx) ==
    [i \in 1..Len(ctx) |->
        Line(IF messages[ctx[i]].senderId # 0 THEN "User" ELSE "Assistant",
             messages[ctx[i]].text)]

\* fullPrompt: with a context, "Previous conversation:", the context, the new
\* utterance and the marker "Assistant:"; without, the utterance and the marker
fullPrompt(ctx, userMessage) ==
    IF context(ctx) # <<>>
    THEN <<Line("Previous conversation", NoText)>> \o context(ctx)
            \o <<Line("User", userMessage), Line("Assistant", NoText)>>
    ELSE <<Line("User", userMessage), Line("Assistant", NoText)>>

\* queryFastAPI: response.data, or the fallback object of its catch block;
\* answer = NoText stands for a body without a truthy answer
queryFastAPI(outcome, t) ==
    CASE outcome \in {"timeout", "non2xx"} -> [answer |-> RelayFallback]
      [] outcome = "answer" -> [answer |-> [kind |-> "answer", n |-> t]]
      [] outcome = "blank" -> [answer |-> [kind |-> "blank", n |-> 0]]
      [] outcome = "nonstring" -> [answer |-> [kind |-> "nonstring", n |-> 0]]
      [] OTHER -> [answer |-> NoText]

\* processUserMessage after queryFastAPI returned:
\* result && result.answer ? result.answer : "I'm having trouble understanding..."
processUserMessage(outcome, t) ==
    LET result == queryFastAPI(outcome, t) IN
    IF result.answer # NoText THEN result.answer ELSE InvalidFallback

\* reply.trim() throws a TypeError when reply is not a string
TrimThrows(reply) == reply.kind = "nonstring"

\* (reply && reply.trim()) ? reply : defaultReply
AssistantText(reply) == IF reply.kind = "blank" THEN defaultReply ELSE reply

----------------------------------------------------------------------------
(* handleMessage *)

\* an inbound frame: a JSON object with its type, conversationId (0: absent
\* or falsy) and text, or a frame that is no JSON ("invalid_json"), or the
\* JSON value null ("json_null"); type "unknown" is any other JSON value.
\* The utterance of frame n is the text n: the code never compares texts.
FrameTypes ==
    {"message", "load_history", "new_conversation", "unknown", "invalid_json",
     "json_null"}

Frames(n) ==
    {[type |-> "message", cid |-> k, text |-> [kind |-> "user", n |-> n]] :
        k \in {0} \cup ConversationIds}
    \cup {[type |-> "load_history", cid |-> k, text |-> NoText] :
            k \in {0} \cup ConversationIds}
    \cup {[type |-> ty, cid |-> 0, text |-> NoText] :
            ty \in {"new_conversation", "unknown", "invalid_json", "json_null"}}

\* one invocation of handleMessage: the frame, where it stands (pc: the
\* awaited operation, "done" or "rejected" for a promise that rejected), the
\* conversation findOrCreateConversation returned, the Messages it created,
\* whether that conversation was created by this invocation, the context it
\* read (kept while the request to the backend is pending), whether
\* queryFastAPI was called, the reply of processUserMessage, the events it
\* sent, and the cause of the "error" event among them ("" if none)
NewTask(c, f, pc, failed) ==
    [conn |-> c, type |-> f.type, cid |-> f.cid, text |-> f.text, pc |-> pc,
     conv |-> 0, created |-> FALSE, umsg |-> 0, amsg |-> 0, ctx |-> <<>>,
     asked |-> FALSE, reply |-> NoText, out |-> <<>>, failed |-> failed]

\* a catch block that logs the error and sends nothing
CatchSilent(t, cause) ==
    tasks' = [tasks EXCEPT ![t].pc = "done", ![t].failed = cause]

\* the catch block of a branch: one "error" event, the invocation ends
Catch(t, cause) ==
    tasks' = [tasks EXCEPT ![t].pc = "done", ![t].failed = cause,
                           ![t].out = wsSend(tasks[t], "error", <<>>)]

\* the rejection of an invocation before its first await: "error" is sent
Reject(c, f, cause) ==
    LET t == NewTask(c, f, "done", cause) IN
    Append(tasks, [t EXCEPT !.out = wsSend(t, "error", <<>>)])

\* a gateway with a pending flag per socket: a frame that arrives while an
\* invocation of its socket is pending is dropped (if (ws.pending) return;)
handleMessageIfIdle(c, f) ==
    IF ws_userId[c] = 0
    THEN tasks' = Reject(c, f, "not_authenticated")
    ELSE IF \E a \in 1..Len(tasks) :
                tasks[a].conn = c /\ tasks[a].pc \notin {"done", "rejected"}
    THEN tasks' = Append(tasks, NewTask(c, f, "done", ""))
    ELSE IF f.type = "invalid_json"
    THEN tasks' = Reject(c, f, "invalid_json")
    ELSE IF f.type = "json_null"
    THEN tasks' = Append(tasks, NewTask(c, f, "rejected", ""))
    ELSE IF f.type \in {"message", "load_history"}
    THEN tasks' = Append(tasks,
                NewTask(c, f, IF f.cid # 0 THEN "findOne" ELSE "createConv", ""))
    ELSE IF f.type = "new_conversation"
    THEN tasks' = Append(tasks, NewTask(c, f, "createConv", ""))
    ELSE tasks' = Reject(c, f, "unknown_type")

\* handleMessage from its call to its first await
handleMessageSync(c, f) ==
    IF ws_userId[c] = 0
    THEN tasks' = Reject(c, f, "not_authenticated")
    ELSE IF f.type = "invalid_json"
    THEN tasks' = Reject(c, f, "invalid_json")
    ELSE IF f.type = "json_null"
    THEN \* destructuring null throws outside every try block
         tasks' = Append(tasks, NewTask(c, f, "rejected", ""))
    ELSE IF f.type \in {"message", "load_history"}
    THEN tasks' = Append(tasks,
                NewTask(c, f, IF f.cid # 0 THEN "findOne" ELSE "createConv", ""))
    ELSE IF f.type = "new_conversation"
    THEN tasks' = Append(tasks, NewTask(c, f, "createConv", ""))
    ELSE tasks' = Reject(c, f, "unknown_type")

\* ws.on("message", (raw) => { handleMessage(ws, raw); })
\* (a connection handler that is due runs first: it commutes with the frame;
\* the sockets are interchangeable, and the one that gets the first frame is
\* numbered 1)
Receive ==
    \E c \in Conns :
        /\ ws_state[c] = "open"
        /\ ws_handlers[c]
        /\ \A d \in Conns : request[d] = NoRequest
        /\ tasks = <<>> => \A d \in Conns : c <= d
        /\ proc \in {"running", "shutting"}
        /\ Len(tasks) < Cardinality(Invocations)
        /\ \E f \in Frames(Len(tasks) + 1) : handleMessageSync(c, f)
        /\ UNCHANGED <<ws_state, ws_userId, ws_handlers, ws_close, request,
                       credential, greeting, conversations, messages, faults,
                       proc>>

\* findOrCreateConversation returns the conversation it found: handleMessage
\* goes on to Message.create (message) or Message.find (load_history)
Found(t, conv) ==
    tasks' = [tasks EXCEPT ![t].conv = conv,
                           ![t].pc = IF tasks[t].type = "message"
                                     THEN "appendUser" ELSE "find"]

\* findOrCreateConversation, Conversation.findOne completes
FindOneDone(t, fail) ==
    /\ tasks[t].pc = "findOne"
    /\ IF fail
       THEN Catch(t, "findOne")
       ELSE LET conversation == findOne(ws_userId[tasks[t].conn], tasks[t].cid) IN
            /\ IF conversation # 0
               THEN Found(t, conversation)
               ELSE tasks' = [tasks EXCEPT ![t].pc = "createConv"]
    /\ UNCHANGED <<conversations, messages>>

\* Conversation.create where a new_conversation starts over: the Messages of
\* the user's other conversations are deleted (Message.deleteMany)
CreateDoneStartingOver(t, fail) ==
    /\ tasks[t].pc = "createConv"
    /\ IF fail
       THEN Catch(t, "createConv") /\ UNCHANGED <<conversations, messages>>
       ELSE /\ conversations' = Append(conversations,
                    [userId |-> ws_userId[tasks[t].conn],
                     title |-> IF tasks[t].type = "new_conversation"
                               THEN "New Conversation"
                               ELSE "Chat with AI Assistant"])
            /\ IF tasks[t].type = "new_conversation"
               THEN /\ tasks' = [tasks EXCEPT
                            ![t].pc = "done",
                            ![t].conv = Len(conversations) + 1,
                            ![t].out = wsSend(tasks[t], "new_conversation",
                                              <<Len(conversations) + 1>>)]
                    /\ messages' = SelectSeq(messages,
                            LAMBDA msg : conversations[msg.conversationId].userId
                                            # ws_userId[tasks[t].conn])
               ELSE /\ tasks' = [tasks EXCEPT
                            ![t].conv = Len(conversations) + 1,
                            ![t].created = TRUE,
                            ![t].pc = IF tasks[t].type = "message"
                                      THEN "appendUser" ELSE "find"]
                    /\ UNCHANGED messages

\* Conversation.create completes: in findOrCreateConversation, or in the
\* new_conversation branch
CreateDone(t, fail) ==
    /\ tasks[t].pc = "createConv"
    /\ IF fail
       THEN Catch(t, "createConv") /\ UNCHANGED conversations
       ELSE /\ conversations' = Append(conversations,
                    [userId |-> ws_userId[tasks[t].conn],
                     title |-> IF tasks[t].type = "new_conversation"
                               THEN "New Conversation"
                               ELSE "Chat with AI Assistant"])
            /\ IF tasks[t].type = "new_conversation"
               THEN tasks' = [tasks EXCEPT
                        ![t].pc = "done",
                        ![t].conv = Len(conversations) + 1,
                        ![t].out = wsSend(tasks[t], "new_conversation",
                                          <<Len(conversations) + 1>>)]
               ELSE tasks' = [tasks EXCEPT
                        ![t].conv = Len(conversations) + 1,
                        ![t].created = TRUE,
                        ![t].pc = IF tasks[t].type = "message"
                                  THEN "appendUser" ELSE "find"]
    /\ UNCHANGED messages

\* Message.create of the user turn not awaited: its rejection is lost and
\* processUserMessage starts whether or not the user turn was stored
AppendUserNotAwaited(t, fail) ==
    /\ tasks[t].pc = "appendUser"
    /\ IF fail
       THEN /\ tasks' = [tasks EXCEPT ![t].pc = "ctxFind"]
            /\ UNCHANGED messages
       ELSE /\ messages' = Append(messages,
                    [conversationId |-> tasks[t].conv,
                     senderId |-> ws_userId[tasks[t].conn],
                     text |-> tasks[t].text,
                     isSystemMessage |-> FALSE])
            /\ tasks' = [tasks EXCEPT
                    ![t].umsg = Len(messages) + 1,
                    ![t].pc = "ctxFind",
                    ![t].out = wsSend(tasks[t], "message", <<Len(messages) + 1>>)]
    /\ UNCHANGED conversations

\* the user turn saved over the latest Message of the conversation
\* (findOneAndUpdate with upsert in the place of create)
AppendUserUpsert(t, fail) ==
    /\ tasks[t].pc = "appendUser"
    /\ IF fail
       THEN Catch(t, "appendUser") /\ UNCHANGED messages
       ELSE LET turn == [conversationId |-> tasks[t].conv,
                         senderId |-> ws_userId[tasks[t].conn],
                         text |-> tasks[t].text,
                         isSystemMessage |-> FALSE]
                log == findSortedAsc(tasks[t].conv)
                at == IF log = <<>> THEN Len(messages) + 1 ELSE log[Len(log)] IN
            /\ messages' = IF log = <<>> THEN Append(messages, turn)
                           ELSE [messages EXCEPT ![at] = turn]
            /\ tasks' = [tasks EXCEPT
                    ![t].umsg = at,
                    ![t].pc = "ctxFind",
                    ![t].out = wsSend(tasks[t], "message", <<at>>)]
    /\ UNCHANGED conversations

\* Message.create of the user turn completes; the echo is sent and
\* processUserMessage starts its Message.find
AppendUserDone(t, fail) ==
    /\ tasks[t].pc = "appendUser"
    /\ IF fail
       THEN Catch(t, "appendUser") /\ UNCHANGED messages
       ELSE /\ messages' = Append(messages,
                    [conversationId |-> tasks[t].conv,
                     senderId |-> ws_userId[tasks[t].conn],
                     text |-> tasks[t].text,
                     isSystemMessage |-> FALSE])
            /\ tasks' = [tasks EXCEPT
                    ![t].umsg = Len(messages) + 1,
                    ![t].pc = "ctxFind",
                    ![t].out = wsSend(tasks[t], "message", <<Len(messages) + 1>>)]
    /\ UNCHANGED conversations

\* processUserMessage without its try block: a rejected Message.find rejects
\* processUserMessage and ends in the catch block of handleMessage
CtxFindDoneUncaught(t, fail) ==
    /\ tasks[t].pc = "ctxFind"
    /\ IF fail
       THEN Catch(t, "ctxFind")
       ELSE tasks' = [tasks EXCEPT ![t].ctx = recentMessages(tasks[t].conv),
                                   ![t].asked = TRUE,
                                   ![t].pc = "relay"]
    /\ UNCHANGED <<conversations, messages>>

\* processUserMessage, Message.find completes: the prompt is built and
\* queryFastAPI posts it; a rejected find goes to the catch block, which
\* returns the technical-difficulties text
CtxFindDone(t, fail) ==
    /\ tasks[t].pc = "ctxFind"
    /\ IF fail
       THEN tasks' = [tasks EXCEPT ![t].reply = TechnicalFallback,
                                   ![t].pc = "appendAsst"]
       ELSE tasks' = [tasks EXCEPT ![t].ctx = recentMessages(tasks[t].conv),
                                   ![t].asked = TRUE,
                                   ![t].pc = "relay"]
    /\ UNCHANGED <<conversations, messages>>

\* the HTTP request made without `timeout`: with a backend that does not
\* respond the promise never settles and the invocation stays where it is
RelayDoneNoTimeout(t, outcome) ==
    /\ tasks[t].pc = "relay"
    /\ StoreOutcome(outcome # "answer")
    /\ CountFault(outcome # "answer")
    /\ LET reply == processUserMessage(outcome, t) IN
       IF outcome = "timeout"
       THEN tasks' = [tasks EXCEPT ![t].pc = "pending", ![t].ctx = <<>>]
       ELSE IF TrimThrows(reply)
       THEN tasks' = [tasks EXCEPT
                ![t].pc = "done", ![t].failed = "trim", ![t].reply = reply,
                ![t].ctx = <<>>,
                ![t].out = wsSend(tasks[t], "error", <<>>)]
       ELSE tasks' = [tasks EXCEPT ![t].pc = "appendAsst", ![t].reply = reply,
                                   ![t].ctx = <<>>]
    /\ UNCHANGED <<conversations, messages>>

\* the HTTP request to the backend ends; processUserMessage returns and
\* handleMessage tests the reply and starts Message.create
RelayDone(t, outcome) ==
    /\ tasks[t].pc = "relay"
    /\ StoreOutcome(outcome # "answer")
    /\ CountFault(outcome # "answer")
    /\ LET reply == processUserMessage(outcome, t) IN
       IF TrimThrows(reply)
       THEN tasks' = [tasks EXCEPT
                ![t].pc = "done", ![t].failed = "trim", ![t].reply = reply,
                ![t].ctx = <<>>,
                ![t].out = wsSend(tasks[t], "error", <<>>)]
       ELSE tasks' = [tasks EXCEPT ![t].pc = "appendAsst", ![t].reply = reply,
                                   ![t].ctx = <<>>]
    /\ UNCHANGED <<conversations, messages>>

\* the assistant turn appended only if the socket is still open
\* (if (ws.readyState !== OPEN) return; before Message.create)
AppendAsstDoneIfOpen(t, fail) ==
    /\ tasks[t].pc = "appendAsst"
    /\ IF fail
       THEN Catch(t, "appendAsst") /\ UNCHANGED messages
       ELSE IF ws_state[tasks[t].conn] # "open"
       THEN tasks' = [tasks EXCEPT ![t].pc = "done"] /\ UNCHANGED messages
       ELSE /\ messages' = Append(messages,
                    [conversationId |-> tasks[t].conv,
                     senderId |-> 0,
                     text |-> AssistantText(tasks[t].reply),
                     isSystemMessage |-> TRUE])
            /\ tasks' = [tasks EXCEPT
                    ![t].amsg = Len(messages) + 1,
                    ![t].pc = "done",
                    ![t].out = wsSend(tasks[t], "message", <<Len(messages) + 1>>)]
    /\ UNCHANGED conversations

\* the assistant turn stored and not sent (the ws.send after Message.create
\* left out)
AppendAsstDoneSilent(t, fail) ==
    /\ tasks[t].pc = "appendAsst"
    /\ IF fail
       THEN Catch(t, "appendAsst") /\ UNCHANGED messages
       ELSE /\ messages' = Append(messages,
                    [conversationId |-> tasks[t].conv,
                     senderId |-> 0,
                     text |-> AssistantText(tasks[t].reply),
                     isSystemMessage |-> TRUE])
            /\ tasks' = [tasks EXCEPT
                    ![t].amsg = Len(messages) + 1,
                    ![t].pc = "done"]
    /\ UNCHANGED conversations

\* the two branches of `if (reply && reply.trim())` without the `else`: the
\* reply is stored and sent, and then the default reply as well
AppendAsstDoneNoElse(t, fail) ==
    /\ tasks[t].pc = "appendAsst"
    /\ IF fail
       THEN Catch(t, "appendAsst") /\ UNCHANGED messages
       ELSE /\ messages' = messages \o
                    <<[conversationId |-> tasks[t].conv,
                       senderId |-> 0,
                       text |-> AssistantText(tasks[t].reply),
                       isSystemMessage |-> TRUE],
                      [conversationId |-> tasks[t].conv,
                       senderId |-> 0,
                       text |-> defaultReply,
                       isSystemMessage |-> TRUE]>>
            /\ tasks' = [tasks EXCEPT
                    ![t].amsg = Len(messages) + 2,
                    ![t].pc = "done",
                    ![t].out = tasks[t].out \o
                        <<Event("message", <<Len(messages) + 1>>),
                          Event("message", <<Len(messages) + 2>>)>>]
    /\ UNCHANGED conversations

\* Message.create of the assistant turn completes
AppendAsstDone(t, fail) ==
    /\ tasks[t].pc = "appendAsst"
    /\ IF fail
       THEN Catch(t, "appendAsst") /\ UNCHANGED messages
       ELSE /\ messages' = Append(messages,
                    [conversationId |-> tasks[t].conv,
                     senderId |-> 0,
                     text |-> AssistantText(tasks[t].reply),
                     isSystemMessage |-> TRUE])
            /\ tasks' = [tasks EXCEPT
                    ![t].amsg = Len(messages) + 1,
                    ![t].pc = "done",
                    ![t].out = wsSend(tasks[t], "message", <<Len(messages) + 1>>)]
    /\ UNCHANGED conversations

\* load_history, Message.find completes
FindDone(t, fail) ==
    /\ tasks[t].pc = "find"
    /\ IF fail
       THEN Catch(t, "find")
       ELSE tasks' = [tasks EXCEPT
                ![t].pc = "done",
                ![t].out = wsSend(tasks[t], "history", history(tasks[t].conv))]
    /\ UNCHANGED <<conversations, messages>>

\* an awaited store operation of some invocation completes or rejects
StoreStep ==
    \E t \in 1..Len(tasks), fail \in BOOLEAN :
        /\ proc \in {"running", "shutting"}
        /\ StoreOutcome(fail)
        /\ CountFault(fail)
        /\ \/ FindOneDone(t, fail)
           \/ CreateDone(t, fail)
           \/ AppendUserDone(t, fail)
           \/ CtxFindDone(t, fail)
           \/ AppendAsstDone(t, fail)
           \/ FindDone(t, fail)
        /\ UNCHANGED <<ws_state, ws_userId, ws_handlers, ws_close, request,
                       credential, greeting, proc>>

\* the backend answers, fails or times out
RelayStep ==
    \E t \in 1..Len(tasks), outcome \in RelayOutcomes :
        /\ proc \in {"running", "shutting"}
        /\ RelayDone(t, outcome)
        /\ UNCHANGED <<ws_state, ws_userId, ws_handlers, ws_close, request,
                       credential, greeting, proc>>

----------------------------------------------------------------------------
(* Process lifecycle (index.js) *)

\* const wss = setupWebSocket(server)
wss == setupWebSocketResult

\* gracefulShutdown(signal) on SIGTERM, SIGINT or SIGUSR2:
\* if (wss) wss.clients.forEach((ws) => ws.close(1000, ...)); server.close(...)
gracefulShutdown ==
    /\ proc = "running"
    /\ proc' = "shutting"
    /\ IF wss # "undefined"
       THEN /\ ws_state' = [c \in Conns |->
                    IF ws_state[c] = "open" THEN "closed" ELSE ws_state[c]]
            /\ ws_close' = [c \in Conns |->
                    IF ws_state[c] = "open"
                    THEN [by |-> "server", code |-> NormalClosure]
                    ELSE ws_close[c]]
       ELSE UNCHANGED <<ws_state, ws_close>>
    /\ UNCHANGED <<ws_userId, ws_handlers, request, credential, greeting,
                   conversations, messages, tasks, faults>>

\* process.exit: every socket still open is dropped without a close frame,
\* and what the process held in memory (the sockets' fields, the pending
\* invocations) is gone; the store stays
Exit ==
    /\ ws_state' = [c \in Conns |->
            IF ws_state[c] = "open" THEN "closed" ELSE ws_state[c]]
    /\ ws_close' = [c \in Conns |->
            IF ws_state[c] = "open" THEN [by |-> "exit", code |-> 0]
            ELSE ws_close[c]]
    /\ ws_userId' = [c \in Conns |-> 0]
    /\ ws_handlers' = [c \in Conns |-> FALSE]
    /\ tasks' = <<>>
    /\ faults' = 0
    /\ request' = [c \in Conns |-> NoRequest]
    /\ UNCHANGED <<credential, greeting, conversations, messages>>

\* server.close(() => process.exit(0)): the callback runs once no connection
\* is left
ExitClean ==
    /\ proc = "shutting"
    /\ \A c \in Conns : ws_state[c] # "open"
    /\ proc' = "exit0"
    /\ Exit

\* a timer whose callback logs "Force terminating..." and does not exit
ForceExitLogsOnly ==
    /\ proc = "shutting"
    /\ UNCHANGED vars

\* setTimeout(() => process.exit(1), 10000)
ForceExit ==
    /\ proc = "shutting"
    /\ proc' = "exit1"
    /\ Exit

Init ==
    /\ ws_state = [c \in Conns |-> "idle"]
    /\ ws_userId = [c \in Conns |-> 0]
    /\ ws_handlers = [c \in Conns |-> FALSE]
    /\ ws_close = [c \in Conns |-> NotClosed]
    /\ request = [c \in Conns |-> NoRequest]
    /\ credential = [c \in Conns |-> NoToken]
    /\ greeting = [c \in Conns |-> ""]
    /\ conversations = InitialConversations
    /\ messages = <<>>
    /\ tasks = <<>>
    /\ faults = 0
    /\ proc = "running"

\* the gateway serving its sockets, no signal received
Serving ==
    \/ Upgrade
    \/ Connect
    \/ ClientClose
    \/ Receive
    \/ StoreStep
    \/ RelayStep

Next ==
    \/ Serving
    \/ gracefulShutdown
    \/ ExitClean
    \/ ForceExit

\* the whole program
Spec == Init /\ [][Next]_vars

\* the program as long as no SIGTERM, SIGINT or SIGUSR2 arrives.  The
\* shutdown steps write proc and, at exit, drop what the process held; before
\* exit they leave sockets, invocations and store as they are and only
\* disable Connect, so the states Spec reaches before exit are those
\* SpecServing reaches.
SpecServing == Init /\ [][Serving]_vars

\* an awaited operation of some invocation completes or fails
Responds == StoreStep \/ RelayStep

\* a client sends a message (chatbot.jsx, sendMessage)
ReceiveMessage ==
    /\ Receive
    /\ tasks'[Len(tasks')].type = "message"

NextLive ==
    \/ Upgrade
    \/ Connect
    \/ ReceiveMessage
    \/ StoreStep
    \/ RelayStep

\* clients that stay connected and send messages, with a store and a backend
\* that do not leave every pending operation unanswered for ever (mongoose
\* rejects an operation it cannot run, axios gives up after timeout: 30000)
SpecLive == Init /\ [][NextLive]_vars /\ WF_vars(Responds)

\* a client sends a message or asks for the history
ReceiveSession ==
    /\ Receive
    /\ tasks'[Len(tasks')].type \in {"message", "load_history"}

NextSession ==
    \/ Upgrade
    \/ Connect
    \/ ReceiveSession
    \/ StoreStep
    \/ RelayStep

\* clients that stay connected, send messages and load histories, with a
\* store that settles every operation (mongoose resolves or rejects it) and
\* a backend of which nothing is assumed: a request to it may stay pending
SpecSession == Init /\ [][NextSession]_vars /\ WF_vars(StoreStep)

----------------------------------------------------------------------------
(* The gateway started on a store that is in use *)

\* the log of a conversation after n turns: user 1 and the assistant in turn
StoredLog(n) ==
    [i \in 1..n |->
        [conversationId |-> 1,
         senderId |-> IF i % 2 = 1 THEN 1 ELSE 0,
         text |-> [kind |-> IF i % 2 = 1 THEN "user" ELSE "answer", n |-> i],
         isSystemMessage |-> i % 2 = 0]]

\* the store holds the conversation of user 1 with a log about as long as
\* the limit of load_history
InitHistory ==
    /\ ws_state = [c \in Conns |-> "idle"]
    /\ ws_userId = [c \in Conns |-> 0]
    /\ ws_handlers = [c \in Conns |-> FALSE]
    /\ ws_close = [c \in Conns |-> NotClosed]
    /\ request = [c \in Conns |-> NoRequest]
    /\ credential = [c \in Conns |-> NoToken]
    /\ greeting = [c \in Conns |-> ""]
    /\ conversations = InitialConversations
    /\ \E n \in (HistoryLimit - 1)..MaxStored : messages = StoredLog(n)
    /\ tasks = <<>>
    /\ faults = 0
    /\ proc = "running"

\* a client asks for the history (chatbot.jsx, onopen)
ReceiveLoadHistory ==
    /\ Receive
    /\ tasks'[Len(tasks')].type = "load_history"

NextHistory ==
    \/ Upgrade
    \/ Connect
    \/ ReceiveLoadHistory
    \/ StoreStep

\* clients that load histories from a store that is in use
SpecHistory == InitHistory /\ [][NextHistory]_vars

NextShutdown ==
    \/ Upgrade
    \/ Connect
    \/ ClientClose
    \/ ReceiveLoadHistory
    \/ StoreStep
    \/ gracefulShutdown
    \/ ExitClean
    \/ ForceExit

\* the program and its shutdown with clients that connect, load their
\* history (chatbot.jsx, onopen) and leave or stay, and a timer that fires:
\* the callback of setTimeout(..., 10000) runs once the 10 seconds are over,
\* unless the process has exited before.  Nothing is assumed of the clients
\* and the store.
SpecShutdown == Init /\ [][NextShutdown]_vars /\ WF_vars(ForceExit)

----------------------------------------------------------------------------
(* Properties *)

Tasks == 1..Len(tasks)

\* the "message" invocations of an authenticated socket
IsMessage(t) == tasks[t].type = "message" /\ ws_userId[tasks[t].conn] # 0

\* the number of "error" events an invocation sent
ErrorsSent(t) ==
    Cardinality({i \in 1..Len(tasks[t].out) : tasks[t].out[i].type = "error"})

\* the conversation exists and belongs to the user
Owned(userId, conversationId) ==
    /\ conversationId \in 1..Len(conversations)
    /\ conversations[conversationId].userId = userId

\* C1: of two message events of one socket, the later one's user Message is
\* appended only once the earlier one has been handled to its end, its
\* assistant Message appended before (FIFO, never concurrently).
C1_MessagesHandledInOrder ==
    \A a \in Tasks, b \in Tasks :
        (/\ a < b
         /\ tasks[a].conn = tasks[b].conn
         /\ IsMessage(a) /\ IsMessage(b)
         /\ tasks[b].umsg # 0)
        => /\ tasks[a].pc = "done"
           /\ tasks[a].amsg # 0 => tasks[a].amsg < tasks[b].umsg

\* C2: no two requests to the inference backend are pending for the same
\* conversation.
C2_OneRequestPerConversation ==
    \A a \in Tasks, b \in Tasks :
        (a # b /\ tasks[a].pc = "relay" /\ tasks[b].pc = "relay")
        => tasks[a].conv # tasks[b].conv

\* C3: a socket whose request supplies no token, a malformed one or an
\* expired one is closed by the gateway with 1008, gets no handlers and no
\* "connected" event, and no handleMessage invocation (so no store
\* operation) ever runs for it.
C3_AuthFailureRejects ==
    \A c \in Conns :
        (ws_state[c] # "idle" /\ credential[c].kind \in {"none", "malformed", "expired"})
        => /\ ws_state[c] = "closed"
           /\ ws_close[c] = [by |-> "server", code |-> PolicyViolation]
           /\ ~ws_handlers[c]
           /\ ws_userId[c] = 0
           /\ greeting[c] # "connected"
           /\ \A t \in Tasks : tasks[t].conn # c

\* a socket was rejected for an expired token while the other socket has
\* invocations that reached the store
C3_Witness ==
    \E c \in Conns, t \in Tasks :
        /\ credential[c].kind = "expired"
        /\ ws_close[c].code = PolicyViolation
        /\ tasks[t].conn # c
        /\ tasks[t].umsg # 0

\* C4: of two message events of one socket, the later one, when it names no
\* conversation, goes to the conversation the earlier one went to (no further
\* Conversation is created for it).
C4_OneActiveConversation ==
    \A a \in Tasks, b \in Tasks :
        (/\ a < b
         /\ tasks[a].conn = tasks[b].conn
         /\ IsMessage(a) /\ IsMessage(b)
         /\ tasks[b].cid = 0
         /\ tasks[a].conv # 0 /\ tasks[b].conv # 0)
        => /\ tasks[b].conv = tasks[a].conv
           /\ ~tasks[b].created

\* C5: the assistant Message of a message event is appended after the user
\* Message of that event, in the same conversation; the context is read and
\* the backend asked only once the user Message is stored; an event whose user
\* append failed asks no backend and appends no assistant Message.
C5_AssistantAfterUser ==
    \A t \in Tasks :
        /\ (tasks[t].pc \in {"ctxFind", "relay", "appendAsst"} \/ tasks[t].asked
            \/ tasks[t].amsg # 0)
           => /\ tasks[t].umsg \in 1..Len(messages)
              /\ messages[tasks[t].umsg].senderId = ws_userId[tasks[t].conn]
              /\ messages[tasks[t].umsg].conversationId = tasks[t].conv
              /\ messages[tasks[t].umsg].text = tasks[t].text
        /\ tasks[t].amsg # 0
           => /\ tasks[t].umsg < tasks[t].amsg
              /\ messages[tasks[t].amsg].conversationId = tasks[t].conv
              /\ messages[tasks[t].amsg].senderId = 0
        /\ tasks[t].failed = "appendUser"
           => /\ tasks[t].pc = "done"
              /\ tasks[t].umsg = 0 /\ tasks[t].amsg = 0
              /\ ~tasks[t].asked

\* one event's user append failed, another event was answered
C5_Witness ==
    \E a \in Tasks, b \in Tasks :
        /\ tasks[a].failed = "appendUser"
        /\ tasks[b].amsg # 0
        /\ tasks[b].asked

\* the backend timed out or answered with a non-2xx status (RelayFallback),
\* or answered 2xx with a body without an answer (InvalidFallback) or with
\* an answer that is no string
BackendFailed(t) ==
    /\ tasks[t].asked
    /\ \/ tasks[t].reply \in {RelayFallback, InvalidFallback}
       \/ tasks[t].reply.kind = "nonstring"

\* C6: a message event whose backend request failed ends, unless the store
\* rejects the append, with a fallback text stored as assistant Message and
\* sent as "message" event, and with no "error" event.
C6_BackendFailureFallsBack ==
    \A t \in Tasks :
        (tasks[t].pc = "done" /\ BackendFailed(t) /\ tasks[t].failed # "appendAsst")
        => /\ tasks[t].failed = ""
           /\ ErrorsSent(t) = 0
           /\ tasks[t].amsg \in 1..Len(messages)
           /\ messages[tasks[t].amsg].text \in FallbackTexts
           /\ tasks[t].out[Len(tasks[t].out)] = Event("message", <<tasks[t].amsg>>)

\* C7: a message event that ends in a rejected Message.create has sent
\* exactly one "error" event, as its last event; the gateway has not closed
\* the socket and its handlers stay registered.
C7_AppendFailureReported ==
    \A t \in Tasks :
        tasks[t].failed \in {"appendUser", "appendAsst"}
        => /\ tasks[t].pc = "done"
           /\ ErrorsSent(t) = 1
           /\ tasks[t].out[Len(tasks[t].out)].type = "error"
           /\ ws_handlers[tasks[t].conn]
           /\ ws_close[tasks[t].conn].by # "server"

\* after a rejected append, a later message event of the same socket, sent
\* to the conversation the failed one had, is answered
C7_Witness ==
    \E a \in Tasks, b \in Tasks :
        /\ a < b
        /\ tasks[a].conn = tasks[b].conn
        /\ tasks[a].failed = "appendAsst"
        /\ tasks[b].cid = tasks[a].conv
        /\ tasks[b].conv = tasks[a].conv
        /\ tasks[b].amsg > tasks[a].umsg
        /\ tasks[b].pc = "done" /\ tasks[b].failed = ""
        /\ ws_state[tasks[a].conn] = "open"

\* C8: every inbound frame of an authenticated open socket is answered with
\* a protocol event, the socket is not closed by the gateway, and no
\* invocation ends in an unhandled rejection.
C8_EveryFrameAnswered ==
    \A t \in Tasks :
        /\ tasks[t].pc # "rejected"
        /\ tasks[t].pc = "done" => Len(tasks[t].out) >= 1
        /\ tasks[t].failed # "" => tasks[t].out[Len(tasks[t].out)].type = "error"
        /\ ws_close[tasks[t].conn].by # "server"

\* C9: once a shutdown signal has been handled, no socket is open: those
\* that were open have been closed by the gateway with code 1000.
C9_ShutdownClosesSockets ==
    proc = "shutting"
    => \A c \in Conns : ws_state[c] # "open"

MostRecent(s, n) == IF Len(s) <= n THEN s ELSE SubSeq(s, Len(s) - n + 1, Len(s))

\* C11: the "history" event that answers a load_history carries the
\* HistoryLimit most recent messages of the conversation (all of them when
\* there are at most HistoryLimit), in ascending chronological order.
C11_HistoryMostRecent ==
    \A t \in Tasks :
        (tasks[t].type = "load_history" /\ tasks[t].pc = "done"
         /\ tasks[t].failed = "")
        => tasks[t].out =
              <<Event("history",
                      MostRecent(findSortedAsc(tasks[t].conv), HistoryLimit))>>
\* C12: the prompt of the first message event of a conversation the event
\* created is the new utterance followed by the marker: no history line.
C12_FirstPromptHasNoHistory ==
    \A t \in Tasks :
        (/\ tasks[t].pc = "relay"
         /\ tasks[t].created
         /\ findSortedAsc(tasks[t].conv)[1] = tasks[t].umsg)
        => fullPrompt(tasks[t].ctx, tasks[t].text)
              = <<Line("User", tasks[t].text), Line("Assistant", NoText)>>
\* C13: for an invocation whose socket has closed, no user Message is
\* appended and no request to the backend is dispatched any more.
C13_ClosedStartsNoTurn ==
    [][\A t \in Tasks :
          ws_state[tasks[t].conn] = "closed"
          => /\ tasks'[t].umsg = tasks[t].umsg
             /\ tasks'[t].asked = tasks[t].asked]_vars
\* C14: on a socket that has closed, a backend request in flight completes
\* and (its answer being a text, the store accepting the append) the
\* assistant Message is appended to the conversation; the send on the closed
\* socket fails nothing: the invocation ends without error and without an
\* unhandled rejection, and the socket stays closed.
C14_InFlightRelayCompletes ==
    [][\A t \in Tasks :
          (/\ ws_state[tasks[t].conn] = "closed"
           /\ tasks[t].pc \in {"relay", "appendAsst"}
           /\ tasks'[t] # tasks[t])
          => /\ tasks'[t].pc # "rejected"
             /\ ws_state'[tasks[t].conn] = "closed"
             /\ (tasks[t].pc = "relay" /\ ~TrimThrows(tasks'[t].reply))
                => /\ tasks'[t].pc = "appendAsst"
                   /\ tasks'[t].failed = ""
             /\ (tasks[t].pc = "appendAsst" /\ faults' = faults)
                => /\ tasks'[t].pc = "done"
                   /\ tasks'[t].failed = ""
                   /\ messages' = Append(messages,
                          [conversationId |-> tasks[t].conv,
                           senderId |-> 0,
                           text |-> AssistantText(tasks[t].reply),
                           isSystemMessage |-> TRUE])
                   /\ tasks'[t].amsg = Len(messages')]_vars

\* the backend has answered an invocation whose socket the peer closed, and
\* the answer is about to be stored
C14_Witness ==
    \E t \in Tasks :
        /\ ws_close[tasks[t].conn].by = "client"
        /\ tasks[t].pc = "appendAsst"
        /\ tasks[t].asked
        /\ tasks[t].reply.kind = "answer"
\* C15: a step of a new_conversation event (its receipt, the completion of
\* its Conversation.create) leaves every Message and every existing
\* Conversation as it is: each conversation's message sequence is the same
\* afterwards.
C15_NewConversationKeepsLog ==
    [][\A t \in 1..Len(tasks') :
          (/\ tasks'[t].type = "new_conversation"
           /\ (t > Len(tasks) \/ tasks'[t] # tasks[t]))
          => /\ messages' = messages
             /\ Len(conversations') >= Len(conversations)
             /\ SubSeq(conversations', 1, Len(conversations)) = conversations]_vars

\* a new_conversation event has been answered on a socket whose earlier
\* message event has its turns in the store
C15_Witness ==
    \E a \in Tasks, b \in Tasks :
        /\ a < b
        /\ tasks[a].conn = tasks[b].conn
        /\ tasks[a].amsg # 0
        /\ tasks[b].type = "new_conversation"
        /\ tasks[b].pc = "done"
        /\ tasks[b].out = <<Event("new_conversation", <<tasks[b].conv>>)>>
        /\ tasks[b].conv > tasks[a].conv
\* C16: after a new_conversation event of a socket has been answered with
\* the new conversation, a message event of that socket that names no
\* conversation goes to that conversation: it is not handed to
\* Conversation.create, which would give it another one.
C16_NewConversationRebinds ==
    [][\A a \in Tasks :
          (/\ Len(tasks') = Len(tasks) + 1
           /\ tasks[a].type = "new_conversation"
           /\ tasks[a].pc = "done"
           /\ tasks[a].out = <<Event("new_conversation", <<tasks[a].conv>>)>>
           /\ \A b \in Tasks : b > a => tasks[b].conn # tasks[a].conn
           /\ tasks'[Len(tasks')].conn = tasks[a].conn
           /\ tasks'[Len(tasks')].type = "message"
           /\ tasks'[Len(tasks')].cid = 0)
          => tasks'[Len(tasks')].pc # "createConv"]_vars
\* the places of a request in their priority order, those that supply a
\* token, and the token of the first place that supplies one
Places == <<"query", "cookie", "subprotocol">>

Supplied(req) == {i \in 1..Len(Places) : req[Places[i]] # NoToken}

Chosen(req) ==
    IF Supplied(req) = {} THEN NoToken
    ELSE req[Places[CHOOSE i \in Supplied(req) : \A j \in Supplied(req) : i <= j]]

\* C17: the connection handler authenticates a request by the token of the
\* first of query, cookie, subprotocol that supplies one: the socket is
\* rejected exactly when no place supplies a token or that token is malformed
\* or expired, and otherwise ws.userId is the id that token carries.
C17_TokenPriority ==
    [][\A c \in Conns :
          (request[c] # NoRequest /\ ws_state'[c] # "idle")
          => /\ credential'[c] = Chosen(request[c])
             /\ ws_state'[c] = "closed"
                <=> Chosen(request[c]).kind \in {"none", "malformed", "expired"}
             /\ ws_state'[c] = "open"
                <=> Chosen(request[c]).kind \in {"valid", "noid"}
             /\ ws_state'[c] = "open" => ws_userId'[c] = Chosen(request[c]).id]_vars

\* a socket has been authenticated by a user's token, and the request of the
\* other, due to be handled, has no token in the query, an expired one in the
\* cookie and a good one in the subprotocol
C17_Witness ==
    \E c \in Conns, d \in Conns :
        /\ ws_state[c] = "open"
        /\ credential[c].kind = "valid"
        /\ ws_userId[c] = credential[c].id
        /\ request[d] = Request(NoToken, [kind |-> "expired", id |-> 0],
                                [kind |-> "valid", id |-> 1])
\* C18: the connection handler sends "connected" exactly on the sockets it
\* authenticates; what it sent to a socket is never sent again or changed;
\* every event of a handleMessage invocation is sent on a socket that has got
\* "connected" before, and none of these events is a "connected".
C18_ConnectedOnceAndFirst ==
    [][\A c \in Conns :
          /\ greeting[c] # "" => greeting'[c] = greeting[c]
          /\ greeting'[c] = "connected"
             <=> (ws_state'[c] # "idle" /\ credential'[c].kind \in {"valid", "noid"})
          /\ \A t \in 1..Len(tasks') :
                (tasks'[t].conn = c /\ tasks'[t].out # <<>>)
                => /\ greeting[c] = "connected"
                   /\ \A i \in 1..Len(tasks'[t].out) :
                         tasks'[t].out[i].type # "connected"]_vars

\* one socket was greeted and has had a frame answered, the other was
\* rejected
C18_Witness ==
    \E c \in Conns, d \in Conns, t \in Tasks :
        /\ greeting[c] = "connected"
        /\ tasks[t].conn = c
        /\ Len(tasks[t].out) >= 2
        /\ greeting[d] = "error"
        /\ ws_close[d].code = PolicyViolation
\* the invocation has ended with the assistant's "message" event or with an
\* "error" event
TurnEnded(t) ==
    /\ t \in Tasks
    /\ tasks[t].pc = "done"
    /\ tasks[t].out # <<>>
    /\ LET last == tasks[t].out[Len(tasks[t].out)] IN
       \/ tasks[t].amsg # 0 /\ last = Event("message", <<tasks[t].amsg>>)
       \/ tasks[t].failed # "" /\ last.type = "error"

\* C19: with a store and a backend that answer or fail every operation,
\* every message event of an authenticated socket ends in the assistant's
\* "message" event or in an "error" event.
C19_MessageEventEnds ==
    \A t \in Invocations :
        (t \in Tasks /\ IsMessage(t)) ~> TurnEnded(t)

\* two message events are pending at once, one waiting for the store and
\* one for the backend
C19_Witness ==
    \E a \in Tasks, b \in Tasks :
        /\ IsMessage(a) /\ IsMessage(b)
        /\ tasks[a].pc = "relay"
        /\ tasks[b].pc = "appendUser"
\* C20: every step of the program (a frame handled, a store operation
\* completed, a socket closed, the shutdown, the exit) leaves the Messages
\* that exist as they are: the log after the step extends the log before it.
C20_LogAppendOnly ==
    [][/\ Len(messages') >= Len(messages)
       /\ SubSeq(messages', 1, Len(messages)) = messages]_vars

\* the process has exited after a shutdown signal with a conversation of two
\* turns or more in the store, and a socket was closed by its peer
C20_Witness ==
    /\ proc \in {"exit0", "exit1"}
    /\ \E k \in 1..Len(conversations) : Len(findSortedAsc(k)) >= 2
    /\ \E c \in Conns : ws_close[c].by = "client"

\* the list of Message indices is in creation order
Ascending(s) == \A i \in 1..Len(s), j \in 1..Len(s) : i < j => s[i] <= s[j]

\* the invocation is a load_history that was answered with a "history" event
HistorySent(t) ==
    /\ tasks[t].type = "load_history"
    /\ tasks[t].pc = "done"
    /\ tasks[t].failed = ""

\* C21: a load_history that names a conversation its user owns (the
\* lookup finds it) writes nothing to the store in any of its steps; the
\* history it sends is in
\* creation order and holds Messages of that conversation only; and it is the
\* history an earlier load_history of that conversation got, unless a Message
\* was appended to the conversation in between.
C21_HistorySortedStable ==
    [][\A t \in 1..Len(tasks') :
          (/\ tasks'[t].type = "load_history"
           /\ Owned(ws_userId[tasks'[t].conn], tasks'[t].cid)
           /\ ~tasks'[t].created
           /\ \/ t > Len(tasks)
              \/ tasks'[t] # tasks[t] /\ tasks[t].pc # "createConv")
          => /\ messages' = messages
             /\ conversations' = conversations
             /\ (tasks'[t].pc = "done" /\ tasks'[t].failed = "")
                => LET sent == tasks'[t].out[1].ref IN
                   /\ tasks'[t].out = <<Event("history", sent)>>
                   /\ tasks'[t].conv = tasks'[t].cid
                   /\ Ascending(sent)
                   /\ \A i \in 1..Len(sent) :
                         messages[sent[i]].conversationId = tasks'[t].conv
                   /\ \A a \in Tasks :
                         (/\ a # t
                          /\ HistorySent(a)
                          /\ tasks[a].conv = tasks'[t].conv
                          /\ \/ Len(tasks[a].out[1].ref) = HistoryLimit
                             \/ tasks[a].out[1].ref = findSortedAsc(tasks[a].conv))
                         => sent = tasks[a].out[1].ref]_vars

\* two load_history events of the conversation of user 1 have been answered,
\* with the same history of HistoryLimit Messages, from a log that is longer
C21_Witness ==
    \E a \in Tasks, b \in Tasks :
        /\ a < b
        /\ HistorySent(a) /\ HistorySent(b)
        /\ tasks[a].cid = 1 /\ tasks[b].cid = 1
        /\ tasks[a].conv = 1 /\ tasks[b].conv = 1
        /\ Len(tasks[a].out[1].ref) = HistoryLimit
        /\ tasks[b].out = tasks[a].out
        /\ Len(findSortedAsc(1)) > HistoryLimit

\* invocation a is a message event of socket c that has not ended
PendingMessage(a, c) ==
    /\ a \in Tasks
    /\ tasks[a].conn = c
    /\ tasks[a].type = "message"
    /\ tasks[a].pc \notin {"done", "rejected"}

\* invocation t is a load_history received while a message event of its
\* socket was pending (it is pending still)
HistoryDue(t) ==
    /\ t \in Tasks
    /\ tasks[t].type = "load_history"
    /\ \E a \in Tasks : a < t /\ PendingMessage(a, tasks[t].conn)

\* invocation t has been answered: with a "history" event, or with an
\* "error" event after a store operation rejected
HistoryAnswered(t) ==
    /\ t \in Tasks
    /\ tasks[t].pc = "done"
    /\ \/ tasks[t].failed = "" /\ Len(tasks[t].out) = 1
                               /\ tasks[t].out[1].type = "history"
       \/ tasks[t].failed # "" /\ tasks[t].out = <<Event("error", <<>>)>>

\* C22: a load_history received while a message event of its socket is
\* pending is answered whether or not the pending event ever ends (the
\* backend may never respond), and no step of it changes the pending event
\* or the Messages that event reads.
C22_HistoryWhilePending ==
    /\ \A t \in Invocations : HistoryDue(t) ~> HistoryAnswered(t)
    /\ [][\A t \in 1..Len(tasks') :
             (/\ tasks'[t].type = "load_history"
              /\ (t > Len(tasks) \/ tasks'[t] # tasks[t]))
             => /\ messages' = messages
                /\ \A a \in Tasks :
                      PendingMessage(a, tasks'[t].conn) => tasks'[a] = tasks[a]]_vars

\* a load_history has been answered with the history while the message event
\* received before it on the same socket waits for the backend
C22_Witness ==
    \E a \in Tasks, t \in Tasks :
        /\ a < t
        /\ PendingMessage(a, tasks[t].conn)
        /\ tasks[a].pc = "relay"
        /\ HistorySent(t)
        /\ tasks[t].conv = tasks[a].conv
        /\ tasks[t].out = <<Event("history", <<tasks[a].umsg>>)>>

\* the "message" events an invocation sent, as the Messages they carry
MessagesSent(t) ==
    SelectSeq(tasks[t].out, LAMBDA e : e.type = "message")

\* C23: a message event handled without failure has sent exactly two
\* events, both "message": first its user Message, then its assistant
\* Message; the user Message is sent before the backend is asked; and a
\* "message" event is never sent before the Message it carries is stored.
C23_EchoThenAnswer ==
    \A t \in Tasks :
        IsMessage(t)
        => /\ (tasks[t].pc = "done" /\ tasks[t].failed = "")
              => /\ tasks[t].umsg # 0 /\ tasks[t].amsg # 0
                 /\ tasks[t].out = <<Event("message", <<tasks[t].umsg>>),
                                     Event("message", <<tasks[t].amsg>>)>>
           /\ (tasks[t].asked \/ tasks[t].pc \in {"ctxFind", "relay", "appendAsst"})
              => /\ tasks[t].out # <<>>
                 /\ tasks[t].out[1] = Event("message", <<tasks[t].umsg>>)
           /\ \A i \in 1..Len(MessagesSent(t)) :
                 LET sent == MessagesSent(t)[i].ref[1] IN
                 /\ sent \in 1..Len(messages)
                 /\ messages[sent].conversationId = tasks[t].conv
                 /\ i = 1 => /\ sent = tasks[t].umsg
                             /\ messages[sent].text = tasks[t].text
                             /\ messages[sent].senderId = ws_userId[tasks[t].conn]
                 /\ i = 2 => /\ sent = tasks[t].amsg
                             /\ messages[sent].senderId = 0
                             /\ messages[sent].text = AssistantText(tasks[t].reply)
                 /\ i <= 2

\* a message event has been echoed and answered with the text the backend
\* gave, while another one has been echoed and waits for the backend
C23_Witness ==
    \E a \in Tasks, b \in Tasks :
        /\ IsMessage(a) /\ IsMessage(b)
        /\ tasks[a].pc = "done" /\ tasks[a].failed = ""
        /\ Len(tasks[a].out) = 2
        /\ messages[tasks[a].amsg].text = [kind |-> "answer", n |-> a]
        /\ tasks[b].pc = "relay"
        /\ tasks[b].out = <<Event("message", <<tasks[b].umsg>>)>>

\* the frame of invocation t is no JSON, or JSON whose type is none of
\* message, load_history, new_conversation, or came on a socket without a
\* user identity
Malformed(t) ==
    \/ tasks[t].type \in {"invalid_json", "unknown", "json_null"}
    \/ ws_userId[tasks[t].conn] = 0

\* C24: a malformed frame is answered with exactly one "error" event, at
\* once: its invocation ends without awaiting any store operation, has no
\* conversation and no Message.
C24_MalformedAnswered ==
    \A t \in Tasks :
        Malformed(t)
        => /\ tasks[t].pc = "done"
           /\ tasks[t].out = <<Event("error", <<>>)>>
           /\ tasks[t].failed \in {"not_authenticated", "invalid_json", "unknown_type"}
           /\ tasks[t].conv = 0 /\ tasks[t].umsg = 0 /\ tasks[t].amsg = 0

\* Message i is in the store, in conversation k, and k belongs to the user
InOwn(i, k, userId) ==
    /\ i \in 1..Len(messages)
    /\ messages[i].conversationId = k
    /\ Owned(userId, k)

\* C25: the Messages an invocation appended are in a conversation of the
\* user of its socket; the Messages of the "history" event it sent and of the
\* context it read for the backend are Messages of the conversation it
\* handles, which belongs to that user.
C25_CrossUserIsolation ==
    \A t \in Tasks :
        LET user == ws_userId[tasks[t].conn] IN
        /\ tasks[t].conv # 0 => Owned(user, tasks[t].conv)
        /\ tasks[t].umsg # 0 => InOwn(tasks[t].umsg, tasks[t].conv, user)
        /\ tasks[t].amsg # 0 => InOwn(tasks[t].amsg, tasks[t].conv, user)
        /\ \A i \in 1..Len(tasks[t].ctx) :
              InOwn(tasks[t].ctx[i], tasks[t].conv, user)
        /\ \A e \in 1..Len(tasks[t].out) :
              tasks[t].out[e].type = "history"
              => \A i \in 1..Len(tasks[t].out[e].ref) :
                    InOwn(tasks[t].out[e].ref[i], tasks[t].conv, user)

\* user 2 has sent a message that names the conversation of user 1, which
\* holds a Message of user 1; the backend is being asked and the context has
\* only the Message user 2 sent
C25_Witness ==
    \E a \in Tasks, b \in Tasks :
        /\ ws_userId[tasks[a].conn] = 1
        /\ ws_userId[tasks[b].conn] = 2
        /\ tasks[a].conv = 1 /\ tasks[a].umsg # 0
        /\ tasks[b].cid = 1
        /\ tasks[b].pc = "relay"
        /\ tasks[a].umsg < tasks[b].umsg
        /\ tasks[b].ctx = <<tasks[b].umsg>>

\* of the first n Messages of a log, those of the assistant and of users
AssistantTurns(log, n) == {i \in 1..n : messages[log[i]].senderId = 0}

UserTurns(log, n) == {i \in 1..n : messages[log[i]].senderId # 0}

\* C26: in every conversation, at every point of its log, the assistant
\* Messages (senderId null, isSystemMessage true) are no more than the user
\* Messages before them: each assistant Message follows a user Message of
\* its own in the same conversation.
C26_AnsweredAtMostOnce ==
    \A k \in 1..Len(conversations) :
        LET log == findSortedAsc(k) IN
        \A n \in 1..Len(log) :
            /\ messages[log[n]].isSystemMessage <=> messages[log[n]].senderId = 0
            /\ Cardinality(AssistantTurns(log, n)) <= Cardinality(UserTurns(log, n))

\* two message events of one conversation overlapped: its log is two user
\* Messages followed by the two answers
C26_Witness ==
    LET log == findSortedAsc(1) IN
    /\ Len(log) = 4
    /\ UserTurns(log, 4) = {1, 2}
    /\ AssistantTurns(log, 4) = {3, 4}

\* C27: when the Message.find of processUserMessage rejects, the invocation
\* sends no "error" event and asks no backend: its reply is the
\* technical-difficulties text, and (the store accepting the append) that
\* text is stored as the assistant Message and sent as a "message" event.
C27_ContextFailureFallsBack ==
    [][\A t \in Tasks :
          /\ (tasks[t].pc = "ctxFind" /\ tasks'[t] # tasks[t] /\ faults' # faults)
             => /\ tasks'[t] = [tasks[t] EXCEPT !.reply = TechnicalFallback,
                                                !.pc = "appendAsst"]
                /\ ~tasks'[t].asked
                /\ ErrorsSent(t) = 0
          /\ (/\ tasks[t].pc = "appendAsst"
              /\ tasks[t].reply = TechnicalFallback
              /\ tasks'[t] # tasks[t]
              /\ faults' = faults)
             => /\ messages' = Append(messages,
                        [conversationId |-> tasks[t].conv,
                         senderId |-> 0,
                         text |-> TechnicalFallback,
                         isSystemMessage |-> TRUE])
                /\ tasks'[t] = [tasks[t] EXCEPT
                        !.pc = "done",
                        !.amsg = Len(messages'),
                        !.out = Append(tasks[t].out,
                                       Event("message", <<Len(messages')>>))]
                /\ ~tasks'[t].asked]_vars

\* a message event whose context could not be read has ended: the echo and
\* the technical-difficulties text were sent as "message" events, the text is
\* in the store, and the backend was not asked
C27_Witness ==
    \E t \in Tasks :
        /\ tasks[t].pc = "done"
        /\ tasks[t].reply = TechnicalFallback
        /\ ~tasks[t].asked
        /\ tasks[t].failed = ""
        /\ messages[tasks[t].amsg].text = TechnicalFallback
        /\ tasks[t].out = <<Event("message", <<tasks[t].umsg>>),
                            Event("message", <<tasks[t].amsg>>)>>

\* place i of the request supplies a token that fails verification and no
\* place before it supplies a token
FailsFirst(req, i) ==
    /\ req[Places[i]] # NoToken
    /\ ~jwtVerifies(req[Places[i]])
    /\ \A j \in 1..Len(Places) : j < i => req[Places[j]] = NoToken

\* C28: when the first place of a request that supplies a token supplies one
\* that fails verification, the socket is closed with 1008 and gets no
\* identity, no handlers and no "connected", whatever the later places
\* carry; and the token the handler verifies is that of the first place
\* that supplies one, the places after it not being looked at.
C28_NoFallbackOnFailure ==
    [][\A c \in Conns :
          (request[c] # NoRequest /\ ws_state'[c] # "idle")
          => /\ (\E i \in 1..Len(Places) : FailsFirst(request[c], i))
                => /\ ws_state'[c] = "closed"
                   /\ ws_close'[c] = [by |-> "server", code |-> PolicyViolation]
                   /\ ws_userId'[c] = 0
                   /\ ~ws_handlers'[c]
                   /\ greeting'[c] = "error"
             /\ \A i \in 1..Len(Places) :
                   (/\ request[c][Places[i]] # NoToken
                    /\ \A j \in 1..Len(Places) :
                          j < i => request[c][Places[j]] = NoToken)
                   => credential'[c] = request[c][Places[i]]]_vars

\* a socket has been rejected for a malformed token, and the request of the
\* next one, due to be handled, has a malformed token in the query and
\* tokens of a user in the cookie and in the subprotocol
C28_Witness ==
    \E c \in Conns, d \in Conns :
        /\ ws_close[c] = [by |-> "server", code |-> PolicyViolation]
        /\ credential[c].kind = "malformed"
        /\ request[d] = Request([kind |-> "malformed", id |-> 0],
                                [kind |-> "valid", id |-> 1],
                                [kind |-> "valid", id |-> 2])

\* C29: the client of a closed socket has a reload scheduled exactly when
\* the close code is not 1000: after the gateway's 1008 it has, after a close
\* with 1000 (its own at unmount, the gateway's at shutdown) it has not.
C29_ReconnectUnlessNormal ==
    \A c \in Conns :
        ws_close[c] # NotClosed
        => /\ reconnectScheduled(c) <=> ws_close[c].code # 1000
           /\ ws_close[c] = [by |-> "server", code |-> PolicyViolation]
              => reconnectScheduled(c)
           /\ ws_close[c].by = "client" => ~reconnectScheduled(c)
           /\ ws_close[c] = [by |-> "server", code |-> NormalClosure]
              => ~reconnectScheduled(c)

\* the process has exited; one socket had been rejected with 1008 and its
\* client reloads, the other had been closed by its client, which does not
C29_Witness ==
    \E c \in Conns, d \in Conns :
        /\ proc \in {"exit0", "exit1"}
        /\ ws_close[c] = [by |-> "server", code |-> PolicyViolation]
        /\ reconnectScheduled(c)
        /\ ws_close[d].by = "client"
        /\ ~reconnectScheduled(d)

\* C30: once a shutdown signal has been handled the process exits; it exits
\* with code 0 only when no connection is open (the HTTP server has closed),
\* and with code 1, by the timer, also while connections are open.
C30_ShutdownExits ==
    /\ (proc = "shutting") ~> (proc \in {"exit0", "exit1"})
    /\ [][/\ proc' # proc
             => \/ proc = "running" /\ proc' = "shutting"
                \/ proc = "shutting" /\ proc' \in {"exit0", "exit1"}
          /\ (proc' = "exit0" /\ proc # "exit0")
             => \A c \in Conns : ws_state[c] # "open"]_vars

\* the process has exited with code 1 while a socket was open, after the
\* other socket had been closed by its client; a load_history had created a
\* conversation
C30_Witness ==
    /\ proc = "exit1"
    /\ \E c \in Conns, d \in Conns :
          ws_close[c].by = "exit" /\ ws_close[d].by = "client"
    /\ Len(conversations) > Len(InitialConversations)
====
